---------------------------- MODULE Spec2Model ----------------------------
(***************************************************************************)
(* A model of src/runner.rs of wasm-workers-server: the artifact           *)
(* classifier (Runner::is_js_file), the runner factory (Runner::new), the  *)
(* headers adapter (build_headers_hash / build_wasm_input) and the         *)
(* invocation engine (Runner::run), the last one step by step so that      *)
(* calls on one shared Runner interleave.                                  *)
(*                                                                         *)
(* Text is a sequence of one-character strings.  Option<T> is a sequence   *)
(* of length at most one: <<>> is None, <<x>> is Some(x).                  *)
(***************************************************************************)
EXTENDS Integers, Sequences, FiniteSets, TLC

VARIABLES
    path,        \* the artifact path given to Runner::new / is_js_file
    file,        \* what the filesystem holds at that path
    jsEngine,    \* what JS_ENGINE_WASM compiles to (a module, or <<>>)
    cls,         \* Option<bool>: the value is_js_file(path) returned
    newResult,   \* outcome of Runner::new: "pending", "ok", "ModuleCompile", "panic"
    runner,      \* Option<Runner>: the Runner that Runner::new returned
    pc,          \* per call of run: the line the call has reached
    input,       \* per call: the `input` argument of run
    stdin,       \* per call: contents of the ReadPipe
    stdout,      \* per call: Option<document> written to the WritePipe
    stdoutRefs,  \* per call: strong references to the stdout WritePipe
    result,      \* per call: what run returned
    trace,       \* per call (history): the steps the call performed
    runs,        \* history: calls of run started so far
    failed,      \* history: calls of run that have returned Err so far
    request,     \* the HttpRequest headers given to build_wasm_input
    wasmInput    \* outcome of build_wasm_input

vars == <<path, file, jsEngine, cls, newResult, runner, pc, input, stdin,
          stdout, stdoutRefs, result, trace, runs, failed, request,
          wasmInput>>

newVars == <<path, file, jsEngine, newResult, runner>>
callVars == <<pc, input, stdin, stdout, stdoutRefs, result, trace, runs, failed>>
hdrVars == <<request, wasmInput>>

(***************************************************************************)
(* Bounds of the model.                                                    *)
(***************************************************************************)
MaxPathLen == 4      \* longest enumerated path (the named examples are longer)
MaxRuns == 4         \* calls of run started in one behaviour
MaxEntries == 5      \* members of a JSON object / array on stdout
MaxHeaders == 3      \* header values in one request

(***************************************************************************)
(* Text helpers.                                                           *)
(***************************************************************************)
SeqsUpTo(S, n) == UNION {[1..k -> S] : k \in 0..n}

Last(s) == s[Len(s)]

EndsWith(s, suffix) ==
    /\ Len(s) >= Len(suffix)
    /\ SubSeq(s, Len(s) - Len(suffix) + 1, Len(s)) = suffix

\* Index of the first / last element of s equal to ch, 0 when there is none.
FirstIndexOf(s, ch) ==
    IF \E i \in 1..Len(s) : s[i] = ch
    THEN CHOOSE i \in 1..Len(s) : s[i] = ch /\ \A j \in 1..(i-1) : s[j] # ch
    ELSE 0

LastIndexOf(s, ch) ==
    IF \E i \in 1..Len(s) : s[i] = ch
    THEN CHOOSE i \in 1..Len(s) : s[i] = ch /\ \A j \in (i+1)..Len(s) : s[j] # ch
    ELSE 0

(***************************************************************************)
(* std::path::Path on Unix, as far as Path::extension reads it.            *)
(***************************************************************************)
\* The "/"-separated pieces of a path, empty pieces included.
RECURSIVE SplitPath(_)
SplitPath(p) ==
    LET i == FirstIndexOf(p, "/") IN
    IF i = 0 THEN <<p>>
    ELSE <<SubSeq(p, 1, i - 1)>> \o SplitPath(SubSeq(p, i + 1, Len(p)))

\* Path::components keeps neither empty pieces (repeated or trailing
\* separators) nor "." pieces; a leading "." or "/" is a CurDir or RootDir
\* component, never a Normal one, so dropping it leaves file_name unchanged.
NamedComponents(p) ==
    SelectSeq(SplitPath(p), LAMBDA c : c # <<>> /\ c # <<".">>)

\* Path::file_name: the last component if it is Normal, None if the path
\* has no component or ends in "..".
file_name(p) ==
    LET cs == NamedComponents(p) IN
    IF cs = <<>> THEN <<>>
    ELSE IF Last(cs) = <<".", ".">> THEN <<>>
    ELSE <<Last(cs)>>

\* std::path::rsplit_file_at_dot: <<before, after>>, both Option.
rsplit_file_at_dot(f) ==
    IF f = <<".", ".">> THEN <<(<<f>>), <<>>>>
    ELSE LET i == LastIndexOf(f, ".") IN
         IF i = 0 THEN <<(<<>>), <<f>>>>                \* rsplitn yields one piece
         ELSE IF i = 1 THEN <<(<<f>>), <<>>>>           \* before == Some(b"")
         ELSE <<(<<SubSeq(f, 1, i - 1)>>), <<SubSeq(f, i + 1, Len(f))>>>>

\* Path::extension: file_name().map(rsplit_file_at_dot)
\*                             .and_then(|(before, after)| before.and(after))
extension(p) ==
    LET fn == file_name(p) IN
    IF fn = <<>> THEN <<>>
    ELSE LET ba == rsplit_file_at_dot(fn[1]) IN
         IF ba[1] = <<>> THEN <<>> ELSE ba[2]

JsExt == <<"j", "s">>

\* A plausible slip: the extension compared without regard to case.
Lower(ch) == IF ch = "J" THEN "j" ELSE IF ch = "S" THEN "s" ELSE ch

is_js_file_nocase(p) ==
    LET e == extension(p) IN
    IF e = <<>> THEN FALSE
    ELSE [i \in 1..Len(e[1]) |-> Lower(e[1][i])] = JsExt

\* A plausible slip: the text of the whole path tested for the suffix ".js".
is_js_file_suffix(p) == EndsWith(p, <<".">> \o JsExt)

\* Runner::is_js_file
is_js_file(p) ==
    LET e == extension(p) IN
    IF e = <<>> THEN FALSE ELSE e[1] = JsExt


(***************************************************************************)
(* Artifacts.  A compiled module is described by what run can observe of   *)
(* it: whether the WASI linker satisfies its imports, what its default     *)
(* export ("" or "_start") is, and what the guest does when it is called.  *)
(***************************************************************************)
Str(t) == [k |-> "str", n |-> 0, s |-> t]
Map == [k |-> "map", n |-> 0, s |-> <<>>]
Num(i) == [k |-> "int", n |-> i, s |-> <<>>]

Member(key, val) == [key |-> key, val |-> val]

Document(shape, items) == [shape |-> shape, items |-> items]

NotJson == Document("notjson", <<>>)

Empty == Document("empty", <<>>)        \* no bytes at all

Artifact(behaviour, emits) ==
    [origin |-> "artifact", imports_ok |-> TRUE, entry |-> "unit",
     behaviour |-> behaviour, emits |-> emits]

EchoModule == Artifact("echo", Empty)       \* writes back what it read
TrapModule == Artifact("trap", Empty)       \* executes unreachable
TrapIfModule == Artifact("trapif", Empty)   \* traps when its stdin holds a "t"
EmitModule(doc) == Artifact("emit", doc)    \* writes doc whatever it reads
NotJsonModule == EmitModule(NotJson)        \* writes `not json`
BadImportsModule == [EchoModule EXCEPT !.imports_ok = FALSE]
NoEntryModule == [EchoModule EXCEPT !.entry = "none"]
NotFuncEntryModule == [EchoModule EXCEPT !.entry = "notfunc"]
WrongSigModule == [EchoModule EXCEPT !.entry = "other"]

Modules ==
    {EchoModule, TrapModule, NotJsonModule, TrapIfModule, BadImportsModule,
     NoEntryModule, NotFuncEntryModule, WrongSigModule}

\* The embedded QuickJS engine, when its bytes compile.
JsEngineModule ==
    [origin |-> "embedded", imports_ok |-> TRUE, entry |-> "unit",
     behaviour |-> "jsengine", emits |-> Empty]

\* JavaScript sources: "e" echoes the request, "t" throws.
Sources == {<<>>, <<"e">>, <<"t">>, <<"t", "e">>}

File(readable, utf8, text, wasm) ==
    [readable |-> readable, utf8 |-> utf8, text |-> text, wasm |-> wasm]

Files ==
    {File(FALSE, FALSE, <<>>, <<>>)}                       \* missing / unreadable
    \cup {File(TRUE, FALSE, <<>>, <<>>)}                   \* bytes, neither text nor wasm
    \cup {File(TRUE, TRUE, t, <<>>) : t \in Sources}       \* text files
    \cup {File(TRUE, FALSE, <<>>, <<m>>) : m \in Modules}  \* wasm binaries

(***************************************************************************)
(* Runner::new                                                             *)
(***************************************************************************)
Runner(runner_type, module, source) ==
    [runner_type |-> runner_type, module |-> module, source |-> source]

\* wasmtime::Module::from_binary(&engine, JS_ENGINE_WASM)
from_binary_engine == jsEngine

\* wasmtime::Module::from_file(&engine, path)
from_file == IF file.readable THEN file.wasm ELSE <<>>

\* std::fs::read_to_string(path): Some(text), None when the file cannot
\* be read or is not UTF-8.
read_to_string == IF file.readable /\ file.utf8 THEN <<file.text>> ELSE <<>>

\* A plausible slip: the source read from the file is not kept.
NewDropsSource ==
    /\ newResult = "pending"
    /\ IF is_js_file(path)
       THEN IF from_binary_engine = <<>>
            THEN newResult' = "ModuleCompile" /\ runner' = <<>>
            ELSE IF read_to_string = <<>>
                 THEN newResult' = "panic" /\ runner' = <<>>
                 ELSE /\ newResult' = "ok"
                      /\ runner' = <<Runner("JavaScript", from_binary_engine[1],
                                            <<>>)>>
       ELSE IF from_file = <<>>
            THEN newResult' = "ModuleCompile" /\ runner' = <<>>
            ELSE /\ newResult' = "ok"
                 /\ runner' = <<Runner("Wasm", from_file[1], <<>>)>>
    /\ UNCHANGED <<path, file, jsEngine, cls>>
    /\ UNCHANGED callVars
    /\ UNCHANGED hdrVars

\* Runner::new(path).  The `?` on a compile error returns Err to the
\* caller; the `.expect` on read_to_string panics.
New ==
    /\ newResult = "pending"
    /\ IF is_js_file(path)
       THEN IF from_binary_engine = <<>>
            THEN newResult' = "ModuleCompile" /\ runner' = <<>>
            ELSE IF read_to_string = <<>>
                 THEN newResult' = "panic" /\ runner' = <<>>
                 ELSE /\ newResult' = "ok"
                      /\ runner' = <<Runner("JavaScript", from_binary_engine[1],
                                            read_to_string[1])>>
       ELSE IF from_file = <<>>
            THEN newResult' = "ModuleCompile" /\ runner' = <<>>
            ELSE /\ newResult' = "ok"
                 /\ runner' = <<Runner("Wasm", from_file[1], <<>>)>>
    /\ UNCHANGED <<path, file, jsEngine, cls>>
    /\ UNCHANGED callVars
    /\ UNCHANGED hdrVars

\* One call of Runner::is_js_file(path).
Classify ==
    /\ cls = <<>>
    /\ cls' = <<is_js_file(path)>>
    /\ UNCHANGED newVars
    /\ UNCHANGED callVars
    /\ UNCHANGED hdrVars

(***************************************************************************)
(* The guest.                                                              *)
(***************************************************************************)
\* The literal pushed between source and input.
Separator == <<"[", "[", "[", "i", "n", "p", "u", "t", "]", "]", "]">>

\* Index at which the first occurrence of sub starts in s, 0 if none.
FirstOccurrence(s, sub) ==
    LET at(i) == SubSeq(s, i, i + Len(sub) - 1) = sub
        starts == {i \in 1..(Len(s) - Len(sub) + 1) : at(i)}
    IN IF starts = {} THEN 0
       ELSE CHOOSE i \in starts : \A j \in starts : i <= j

\* The response an echoing guest writes for the request text it was given.
EchoDocument(text) ==
    Document("object",
             <<Member("body", Str(text)), Member("headers", Map),
               Member("status", Num(200)), Member("kv", Map)>>)

GuestReturn(doc) == [trap |-> FALSE, out |-> doc]
GuestTrap == [trap |-> TRUE, out |-> Empty]

\* The embedded engine: split stdin on the first separator, evaluate the
\* prefix as the program with the suffix as the request.  A program starting
\* with "e" echoes the request, one starting with "t" throws, any other
\* writes nothing.
JsEngineGuest(bytes) ==
    LET i == FirstOccurrence(bytes, Separator)
        program == IF i = 0 THEN bytes ELSE SubSeq(bytes, 1, i - 1)
        req == IF i = 0 THEN <<>>
               ELSE SubSeq(bytes, i + Len(Separator), Len(bytes))
    IN IF program = <<>> THEN GuestReturn(Empty)
       ELSE IF program[1] = "t" THEN GuestTrap
       ELSE IF program[1] = "e" THEN GuestReturn(EchoDocument(req))
       ELSE GuestReturn(Empty)

\* What calling the default export of module does, given the bytes on stdin.
Guest(module, bytes) ==
    IF module.entry = "none" THEN GuestReturn(Empty)   \* get_default's no-op
    ELSE CASE module.behaviour = "echo" -> GuestReturn(EchoDocument(bytes))
           [] module.behaviour = "trap" -> GuestTrap
           [] module.behaviour = "trapif" ->
                IF \E i \in 1..Len(bytes) : bytes[i] = "t"
                THEN GuestTrap ELSE GuestReturn(EchoDocument(bytes))
           [] module.behaviour = "emit" -> GuestReturn(module.emits)
           [] module.behaviour = "jsengine" -> JsEngineGuest(bytes)

(***************************************************************************)
(* serde_json::from_slice::<WasmOutput>                                    *)
(***************************************************************************)
U16Max == 65535

FieldNames == <<"body", "headers", "status", "kv">>

\* Whether val deserializes as the declared type of the field.
FieldAccepts(field, val) ==
    CASE field = "body" -> val.k = "str"                       \* String
      [] field = "headers" -> val.k = "map"                    \* HashMap<String, String>
      [] field = "status" -> val.k = "int" /\ 0 <= val.n /\ val.n <= U16Max   \* u16
      [] field = "kv" -> val.k = "map"                         \* HashMap<String, String>

NoFields == [f \in {FieldNames[i] : i \in 1..Len(FieldNames)} |-> <<>>]

WasmOutput(got) ==
    [body |-> got["body"][1].s, headers |-> got["headers"][1].k,
     status |-> got["status"][1].n, kv |-> got["kv"][1].k]

\* The derived Visitor::visit_map: a known key seen twice is an error, a
\* value of the wrong type is an error, an unknown key is skipped, and a
\* field still unset at the end is an error.  Option<WasmOutput>.
RECURSIVE visit_map(_, _)
visit_map(items, got) ==
    IF items = <<>>
    THEN IF \E f \in DOMAIN got : got[f] = <<>> THEN <<>> ELSE <<WasmOutput(got)>>
    ELSE LET m == Head(items) IN
         IF m.key \in DOMAIN got
         THEN IF got[m.key] # <<>> THEN <<>>
              ELSE IF ~FieldAccepts(m.key, m.val) THEN <<>>
              ELSE visit_map(Tail(items), [got EXCEPT ![m.key] = <<m.val>>])
         ELSE visit_map(Tail(items), got)

\* The derived Visitor::visit_seq: the fields in declaration order; fewer
\* elements are an invalid length, more are trailing characters.
visit_seq(items) ==
    IF Len(items) # Len(FieldNames) THEN <<>>
    ELSE IF \E i \in 1..Len(FieldNames) : ~FieldAccepts(FieldNames[i], items[i].val)
    THEN <<>>
    ELSE <<WasmOutput([f \in DOMAIN NoFields |->
               <<items[CHOOSE i \in 1..Len(FieldNames) : FieldNames[i] = f].val>>])>>

\* A plausible slip: fields given a default (#[serde(default)]), so that a
\* missing one no longer fails.
from_slice_defaults(doc) ==
    IF doc.shape = "object"
    THEN LET known == SelectSeq(doc.items, LAMBDA m : m.key \in DOMAIN NoFields)
         IN IF \E i \in 1..Len(known) : ~FieldAccepts(known[i].key, known[i].val)
            THEN <<>>
            ELSE <<[body |-> <<>>, headers |-> "map", status |-> 0, kv |-> "map"]>>
    ELSE <<>>

\* serde_json::from_slice(&contents): Option<WasmOutput>, None for Err.
from_slice(doc) ==
    CASE doc.shape = "object" -> visit_map(doc.items, NoFields)
      [] doc.shape = "array" -> visit_seq(doc.items)
      [] OTHER -> <<>>

(***************************************************************************)
(* Runner::run, one action per statement that can fail or that other       *)
(* calls can observe.  Every call owns its row of pc, input, stdin,        *)
(* stdout, stdoutRefs, result and trace: they are locals of run.           *)
(***************************************************************************)
Calls == {"c1", "c2"}

Inputs == {<<>>, <<"a">>, <<"t">>, <<"b", "t">>}

RunOk(out) == [ok |-> TRUE, err |-> "", out |-> <<out>>]
RunErr(kind) == [ok |-> FALSE, err |-> kind, out |-> <<>>]
NoResult == [ok |-> FALSE, err |-> "", out |-> <<>>]

\* A plausible slip: the separator left out.
PrepareStdinNoSeparator(r, i) ==
    IF r.runner_type = "Wasm" THEN i ELSE r.source \o i

\* The bytes of the stdin ReadPipe (the match on self.runner_type).
PrepareStdin(r, i) ==
    IF r.runner_type = "Wasm" THEN i
    ELSE r.source \o Separator \o i

Step(c, name) == trace' = [trace EXCEPT ![c] = Append(@, name)]

\* run returns r: its locals (store, linker, pipes) go out of scope.
Return(c, r) ==
    /\ pc' = [pc EXCEPT ![c] = "done"]
    /\ result' = [result EXCEPT ![c] = r]
    /\ stdoutRefs' = [stdoutRefs EXCEPT ![c] = 0]
    /\ failed' = IF r.ok THEN failed ELSE failed + 1

Goto(c, label) ==
    /\ pc' = [pc EXCEPT ![c] = label]
    /\ UNCHANGED <<result, failed>>

\* run(&self, input) up to Store::new: the stdin pipe, the two in-memory
\* write pipes, the linker with WASI added, the WasiCtx holding a clone of
\* each pipe, the store.  add_to_linker on a fresh linker and inherit_args
\* on the process's own arguments do not fail.
RunBegin(c, i) ==
    /\ newResult = "ok"
    /\ pc[c] = "idle"
    /\ runs < MaxRuns
    /\ runs' = runs + 1
    /\ input' = [input EXCEPT ![c] = i]
    /\ stdin' = [stdin EXCEPT ![c] = PrepareStdin(runner[1], i)]
    /\ stdout' = [stdout EXCEPT ![c] = Empty]
    /\ stdoutRefs' = [stdoutRefs EXCEPT ![c] = 2]
    /\ trace' = [trace EXCEPT ![c] = <<>>]
    /\ result' = [result EXCEPT ![c] = NoResult]
    /\ pc' = [pc EXCEPT ![c] = "ready"]
    /\ UNCHANGED <<failed, cls>>
    /\ UNCHANGED newVars
    /\ UNCHANGED hdrVars

\* linker.module(&mut store, "", &self.module)?
LinkModule(c) ==
    /\ pc[c] = "ready"
    /\ Step(c, "module")
    /\ IF runner[1].module.imports_ok
       THEN Goto(c, "linked") /\ UNCHANGED stdoutRefs
       ELSE Return(c, RunErr("ModuleInstantiate"))
    /\ UNCHANGED <<input, stdin, stdout, runs, cls>>
    /\ UNCHANGED newVars
    /\ UNCHANGED hdrVars

\* linker.get_default(&mut store, "")?  A module without a default export
\* gets a no-op function; an export that is no function is an error.
GetDefault(c) ==
    /\ pc[c] = "linked"
    /\ Step(c, "get_default")
    /\ IF runner[1].module.entry # "notfunc"
       THEN Goto(c, "resolved") /\ UNCHANGED stdoutRefs
       ELSE Return(c, RunErr("EntryMissing"))
    /\ UNCHANGED <<input, stdin, stdout, runs, cls>>
    /\ UNCHANGED newVars
    /\ UNCHANGED hdrVars

\* .typed::<(), (), _>(&store)?
Typed(c) ==
    /\ pc[c] = "resolved"
    /\ Step(c, "typed")
    /\ IF runner[1].module.entry # "other"
       THEN Goto(c, "typed") /\ UNCHANGED stdoutRefs
       ELSE Return(c, RunErr("EntrySignature"))
    /\ UNCHANGED <<input, stdin, stdout, runs, cls>>
    /\ UNCHANGED newVars
    /\ UNCHANGED hdrVars

\* A plausible slip: a trap leaves the shared module unusable.
CallEntryPoisons(c) ==
    /\ pc[c] = "typed"
    /\ Step(c, "call")
    /\ LET g == Guest(runner[1].module, stdin[c]) IN
       IF g.trap
       THEN /\ Return(c, RunErr("GuestTrap"))
            /\ runner' = <<[runner[1] EXCEPT !.module.imports_ok = FALSE]>>
            /\ UNCHANGED stdout
       ELSE /\ Goto(c, "called")
            /\ stdout' = [stdout EXCEPT ![c] = g.out]
            /\ UNCHANGED <<stdoutRefs, runner>>
    /\ UNCHANGED <<input, stdin, runs, cls>>
    /\ UNCHANGED <<path, file, jsEngine, newResult>>
    /\ UNCHANGED hdrVars

\* A plausible slip: one stdout pipe shared by the calls of a Runner.
CallEntrySharedStdout(c) ==
    /\ pc[c] = "typed"
    /\ Step(c, "call")
    /\ LET g == Guest(runner[1].module, stdin[c]) IN
       IF g.trap
       THEN Return(c, RunErr("GuestTrap")) /\ UNCHANGED stdout
       ELSE /\ Goto(c, "called")
            /\ stdout' = [d \in Calls |-> g.out]
            /\ UNCHANGED stdoutRefs
    /\ UNCHANGED <<input, stdin, runs, cls>>
    /\ UNCHANGED newVars
    /\ UNCHANGED hdrVars

\* .call(&mut store, ())?  The guest runs to completion on this thread,
\* reading this call's stdin and writing this call's stdout.
CallEntry(c) ==
    /\ pc[c] = "typed"
    /\ Step(c, "call")
    /\ LET g == Guest(runner[1].module, stdin[c]) IN
       IF g.trap
       THEN Return(c, RunErr("GuestTrap")) /\ UNCHANGED stdout
       ELSE /\ Goto(c, "called")
            /\ stdout' = [stdout EXCEPT ![c] = g.out]
            /\ UNCHANGED stdoutRefs
    /\ UNCHANGED <<input, stdin, runs, cls>>
    /\ UNCHANGED newVars
    /\ UNCHANGED hdrVars

\* drop(store): the WasiCtx and its clone of the stdout pipe are released.
DropStore(c) ==
    /\ pc[c] = "called"
    /\ Step(c, "drop")
    /\ Goto(c, "dropped")
    /\ stdoutRefs' = [stdoutRefs EXCEPT ![c] = @ - 1]
    /\ UNCHANGED <<input, stdin, stdout, runs, cls>>
    /\ UNCHANGED newVars
    /\ UNCHANGED hdrVars

\* A plausible slip: the buffer claimed without dropping the store first.
TryIntoInnerEarly(c) ==
    /\ pc[c] = "called"
    /\ Step(c, "try_into_inner")
    /\ IF stdoutRefs[c] = 1
       THEN Goto(c, "extracted") /\ stdoutRefs' = [stdoutRefs EXCEPT ![c] = 0]
       ELSE Return(c, RunErr("OutputUnavailable"))
    /\ UNCHANGED <<input, stdin, stdout, runs, cls>>
    /\ UNCHANGED newVars
    /\ UNCHANGED hdrVars

\* stdout.try_into_inner().map_err(..)?.into_inner(): succeeds only for
\* the last reference to the pipe.
TryIntoInner(c) ==
    /\ pc[c] = "dropped"
    /\ Step(c, "try_into_inner")
    /\ IF stdoutRefs[c] = 1
       THEN Goto(c, "extracted") /\ stdoutRefs' = [stdoutRefs EXCEPT ![c] = 0]
       ELSE Return(c, RunErr("OutputUnavailable"))
    /\ UNCHANGED <<input, stdin, stdout, runs, cls>>
    /\ UNCHANGED newVars
    /\ UNCHANGED hdrVars

\* let output: WasmOutput = serde_json::from_slice(&contents)?; Ok(output)
FromSlice(c) ==
    /\ pc[c] = "extracted"
    /\ Step(c, "from_slice")
    /\ LET o == from_slice(stdout[c]) IN
       IF o = <<>> THEN Return(c, RunErr("ResponseDecode"))
       ELSE Return(c, RunOk(o[1]))
    /\ UNCHANGED <<input, stdin, stdout, runs, cls>>
    /\ UNCHANGED newVars
    /\ UNCHANGED hdrVars

\* The caller has taken the value run returned; it may call run again.
Returned(c) ==
    /\ pc[c] = "done"
    /\ runs < MaxRuns
    /\ pc' = [pc EXCEPT ![c] = "idle"]
    /\ input' = [input EXCEPT ![c] = <<>>]
    /\ stdin' = [stdin EXCEPT ![c] = <<>>]
    /\ stdout' = [stdout EXCEPT ![c] = Empty]
    /\ result' = [result EXCEPT ![c] = NoResult]
    /\ trace' = [trace EXCEPT ![c] = <<>>]
    /\ UNCHANGED <<stdoutRefs, runs, failed, cls>>
    /\ UNCHANGED newVars
    /\ UNCHANGED hdrVars

(***************************************************************************)
(* build_headers_hash and build_wasm_input.  A HashMap is the set of its   *)
(* <<key, value>> pairs; a header value is a sequence of bytes.            *)
(***************************************************************************)
HeaderNames == {"a", "b"}

HeaderValues == {<<65>>, <<66>>, <<255>>}

Header(name, value) == [name |-> name, value |-> value]

\* http::header::HeaderValue::to_str: Some(text) when every byte is
\* visible ASCII or a tab, None otherwise.
to_str(value) ==
    IF \A i \in 1..Len(value) :
          (value[i] >= 32 /\ value[i] < 127) \/ value[i] = 9
    THEN <<value>> ELSE <<>>

\* HashMap::insert: the pair replaces any pair with the same key.
insert(map, key, value) ==
    {kv \in map : kv[1] # key} \cup {<<key, value>>}

\* build_headers_hash(headers): Some(map), None when the unwrap of a
\* to_str() panics.
RECURSIVE build_headers_hash_from(_, _)
build_headers_hash_from(headers, parsed_headers) ==
    IF headers = <<>> THEN <<parsed_headers>>
    ELSE LET h == Head(headers)
             text == to_str(h.value)
         IN IF text = <<>> THEN <<>>
            ELSE build_headers_hash_from(Tail(headers),
                                         insert(parsed_headers, h.name, text[1]))

build_headers_hash(headers) == build_headers_hash_from(headers, {})

Pending == [status |-> "pending", headers |-> {}, kv |-> {}]

\* build_wasm_input(request, body, kv): WasmInput::new, then to_string.
BuildWasmInput ==
    /\ wasmInput = Pending
    /\ LET h == build_headers_hash(request.headers) IN
       wasmInput' =
         IF h = <<>> THEN [status |-> "panic", headers |-> {}, kv |-> {}]
         ELSE [status |-> "ok", headers |-> h[1],
               kv |-> IF request.kv = <<>> THEN {} ELSE request.kv[1]]
    /\ UNCHANGED <<request, cls>>
    /\ UNCHANGED newVars
    /\ UNCHANGED callVars

(***************************************************************************)
(* Initial states and specifications.                                      *)
(***************************************************************************)
PathChars == {"/", ".", "j", "s", "J"}

P_a_js == <<"a", ".", "j", "s">>
P_a_wasm == <<"a", ".", "w", "a", "s", "m">>
P_a_JS == <<"a", ".", "J", "S">>
P_a_mjs == <<"a", ".", "m", "j", "s">>
P_a_js_wasm == <<"a", ".", "j", "s", ".", "w", "a", "s", "m">>
P_a_wasm_js == <<"a", ".", "w", "a", "s", "m", ".", "j", "s">>
P_dir_dotjs == <<"d", "i", "r", "/", ".", "j", "s">>
P_dir_a_js_slash == <<"d", "i", "r", "/", "a", ".", "j", "s", "/">>
P_noext == <<"d", "i", "r", "/", "a">>

ExamplePaths ==
    {P_a_js, P_a_wasm, P_a_JS, P_a_mjs, P_a_js_wasm, P_a_wasm_js,
     P_dir_dotjs, P_dir_a_js_slash, P_noext}

Paths == SeqsUpTo(PathChars, MaxPathLen) \cup ExamplePaths

RunPaths == {P_a_js, P_a_wasm}

NoRequest == [headers |-> <<>>, kv |-> <<>>]

InitCalls ==
    /\ pc = [c \in Calls |-> "idle"]
    /\ input = [c \in Calls |-> <<>>]
    /\ stdin = [c \in Calls |-> <<>>]
    /\ stdout = [c \in Calls |-> Empty]
    /\ stdoutRefs = [c \in Calls |-> 0]
    /\ result = [c \in Calls |-> NoResult]
    /\ trace = [c \in Calls |-> <<>>]
    /\ runs = 0
    /\ failed = 0

InitNew(paths) ==
    /\ path \in paths
    /\ file \in Files
    /\ jsEngine \in {<<>>, <<JsEngineModule>>}
    /\ cls = <<>>
    /\ newResult = "pending"
    /\ runner = <<>>

InitHeaders(requests) ==
    /\ request \in requests
    /\ wasmInput = Pending

\* A Runner is made for one artifact, then run is called on it from two
\* threads, again and again.
Init == InitNew(RunPaths) /\ InitCalls /\ InitHeaders({NoRequest})

Run(c) ==
    \/ \E i \in Inputs : RunBegin(c, i)
    \/ LinkModule(c)
    \/ GetDefault(c)
    \/ Typed(c)
    \/ CallEntry(c)
    \/ DropStore(c)
    \/ TryIntoInner(c)
    \/ FromSlice(c)
    \/ Returned(c)

Next == New \/ \E c \in Calls : Run(c)

Spec == Init /\ [][Next]_vars

\* Classification and construction over every short path.
InitCreate == InitNew(Paths) /\ InitCalls /\ InitHeaders({NoRequest})

NextCreate == Classify \/ New

SpecCreate == InitCreate /\ [][NextCreate]_vars

\* Output recovery over every short document: the guest of call "c1" has
\* just returned normally, having written doc.
StatusValues == {200, U16Max, U16Max + 1}

ObjectMembers ==
    {Member("body", v) : v \in {Str(<<>>), Num(200)}}
    \cup {Member("headers", v) : v \in {Map, Str(<<>>)}}
    \cup {Member("status", Num(n)) : n \in StatusValues}
    \cup {Member("kv", Map), Member("x", Str(<<>>))}

ArrayMembers ==
    {Member("", v) : v \in {Str(<<>>), Map} \cup {Num(n) : n \in StatusValues}}

DecodeStart(doc) ==
    /\ file = File(TRUE, FALSE, <<>>, <<EmitModule(doc)>>)
    /\ runner = <<Runner("Wasm", EmitModule(doc), <<>>)>>
    /\ stdout = [c \in Calls |-> IF c = "c1" THEN doc ELSE Empty]
    /\ path = P_a_wasm
    /\ jsEngine = <<JsEngineModule>>
    /\ cls = <<>>
    /\ newResult = "ok"
    /\ pc = [c \in Calls |-> IF c = "c1" THEN "called" ELSE "idle"]
    /\ input = [c \in Calls |-> <<>>]
    /\ stdin = [c \in Calls |-> <<>>]
    /\ stdoutRefs = [c \in Calls |-> IF c = "c1" THEN 2 ELSE 0]
    /\ result = [c \in Calls |-> NoResult]
    /\ trace = [c \in Calls |->
                  IF c = "c1" THEN <<"module", "get_default", "typed", "call">>
                  ELSE <<>>]
    /\ runs = 1
    /\ failed = 0
    /\ InitHeaders({NoRequest})

InitDecode ==
    \/ \E k \in 0..MaxEntries : \E items \in [1..k -> ObjectMembers] :
          DecodeStart(Document("object", items))
    \/ \E k \in 0..MaxEntries : \E items \in [1..k -> ArrayMembers] :
          DecodeStart(Document("array", items))
    \/ \E doc \in {NotJson, Empty, Document("scalar", <<>>)} : DecodeStart(doc)

NextDecode == \E c \in Calls : DropStore(c) \/ TryIntoInner(c) \/ FromSlice(c)

SpecDecode == InitDecode /\ [][NextDecode]_vars

\* The headers adapter over every short header collection.
Requests ==
    {[headers |-> hs, kv |-> kv] :
        hs \in SeqsUpTo({Header(n, v) : n \in HeaderNames, v \in HeaderValues},
                        MaxHeaders),
        kv \in {<<>>, <<{<<"n", "1">>}>>}}

InitBuild == InitNew({P_a_wasm}) /\ InitCalls /\ InitHeaders(Requests)

NextHeaders == BuildWasmInput

SpecHeaders == InitBuild /\ [][NextHeaders]_vars

(***************************************************************************)
(* What the properties below compare the program with.                     *)
(***************************************************************************)
DotJs == <<".", "j", "s">>

\* The final extension of a path: the text after the last "." of its file
\* name, when something other than the name's start precedes that ".".
HasFinalExtension(p, e) ==
    /\ file_name(p) # <<>>
    /\ LET f == file_name(p)[1] IN
       \E i \in 2..Len(f) :
          /\ f[i] = "."
          /\ SubSeq(f, i + 1, Len(f)) = e
          /\ \A j \in (i + 1)..Len(f) : f[j] # "."

HasNoExtension(p) ==
    \/ file_name(p) = <<>>
    \/ \A i \in 2..Len(file_name(p)[1]) : file_name(p)[1][i] # "."

\* The Runner that the artifact at path stands for.
ArtifactRunner ==
    IF is_js_file(path) THEN Runner("JavaScript", jsEngine[1], file.text)
    ELSE Runner("Wasm", file.wasm[1], <<>>)

Has(seq, x) == \E i \in 1..Len(seq) : seq[i] = x

IsPrefix(s, t) == Len(s) <= Len(t) /\ s = SubSeq(t, 1, Len(s))

StepOrder ==
    <<"module", "get_default", "typed", "call", "drop", "try_into_inner",
      "from_slice">>

\* The step at which run on Runner r with input i fails and the error it
\* returns there, when the call runs alone; step 0 when it succeeds.
FailingStep(r, i) ==
    LET g == Guest(r.module, PrepareStdin(r, i)) IN
    IF ~r.module.imports_ok THEN <<1, "ModuleInstantiate">>
    ELSE IF r.module.entry = "notfunc" THEN <<2, "EntryMissing">>
    ELSE IF r.module.entry = "other" THEN <<3, "EntrySignature">>
    ELSE IF g.trap THEN <<4, "GuestTrap">>
    ELSE IF from_slice(g.out) = <<>> THEN <<7, "ResponseDecode">>
    ELSE <<0, "">>

\* What run on Runner r with input i returns when the call runs alone.
RunAlone(r, i) ==
    IF FailingStep(r, i)[1] # 0 THEN RunErr(FailingStep(r, i)[2])
    ELSE RunOk(from_slice(Guest(r.module, PrepareStdin(r, i)).out)[1])

(***************************************************************************)
(* C1: once run has prepared stdin, the bytes the guest can read are       *)
(* exactly the input for a Wasm Runner, and exactly source, then the       *)
(* literal [[[input]]], then the input for a JavaScript Runner.            *)
(***************************************************************************)
C1_StdinBytes ==
    \A c \in Calls :
       pc[c] # "idle" =>
          /\ runner[1].runner_type = "Wasm" => stdin[c] = input[c]
          /\ runner[1].runner_type = "JavaScript" =>
                /\ Len(stdin[c]) = Len(runner[1].source) + 11 + Len(input[c])
                /\ stdin[c] = runner[1].source
                                \o <<"[", "[", "[", "i", "n", "p", "u", "t",
                                     "]", "]", "]">>
                                \o input[c]

C1_Witness ==
    \E c \in Calls :
       /\ pc[c] = "called"
       /\ runner[1].runner_type = "JavaScript"
       /\ runner[1].source # <<>>
       /\ input[c] # <<>>

(***************************************************************************)
(* C2: a call whose guest traps returns the GuestTrap error and no         *)
(* output; the Runner stays the one Runner::new made, and a call whose     *)
(* guest does not trap and writes a valid response returns Ok however many *)
(* calls have failed before.                                               *)
(***************************************************************************)
C2_TrapLeavesRunnerUsable ==
    /\ newResult = "ok" => runner = <<ArtifactRunner>>
    /\ \A c \in Calls :
          (pc[c] = "done" /\ Has(trace[c], "call")) =>
             LET g == Guest(ArtifactRunner.module, stdin[c]) IN
             /\ g.trap => result[c] = RunErr("GuestTrap") /\ result[c].out = <<>>
             /\ (~g.trap /\ from_slice(g.out) # <<>>) => result[c].ok

C2_Witness ==
    /\ failed >= 2
    /\ \E c \in Calls :
          /\ pc[c] = "done"
          /\ result[c].ok
          /\ \E d \in Calls \ {c} : result[d] = RunErr("GuestTrap")

(***************************************************************************)
(* C3: in every interleaving of two calls on one Runner, each call's       *)
(* stdin is made of its own input, the stdout harvested for it is what the *)
(* guest wrote for that stdin, and the value it returns is the value the   *)
(* call returns when it runs alone.                                        *)
(***************************************************************************)
C3_NoCrossTalk ==
    \A c \in Calls :
       /\ pc[c] # "idle" => stdin[c] = PrepareStdin(runner[1], input[c])
       /\ pc[c] \in {"called", "dropped", "extracted"} =>
             stdout[c] = Guest(runner[1].module, stdin[c]).out
       /\ pc[c] = "done" => result[c] = RunAlone(runner[1], input[c])

C3_Witness ==
    /\ pc["c1"] = "called"
    /\ pc["c2"] = "called"
    /\ input["c1"] # input["c2"]
    /\ stdout["c1"] # stdout["c2"]

(***************************************************************************)
(* C4 as claimed: a Runner made by Runner::new has, if JavaScript, a       *)
(* non-empty source and the embedded engine's module and, if Wasm, an      *)
(* empty source and the module compiled from the file.                     *)
(***************************************************************************)
C4_RunnerInvariants ==
    newResult = "ok" =>
       /\ runner[1].runner_type = "JavaScript" =>
             /\ runner[1].source # <<>>
             /\ jsEngine # <<>> /\ runner[1].module = jsEngine[1]
       /\ runner[1].runner_type = "Wasm" =>
             /\ runner[1].source = <<>>
             /\ file.wasm # <<>> /\ runner[1].module = file.wasm[1]

(***************************************************************************)
(* C4 as amended: the source of a JavaScript Runner is the text of the     *)
(* file, empty when the file is empty; the rest as claimed.                *)
(***************************************************************************)
C4_RunnerCarriesArtifact ==
    newResult = "ok" =>
       /\ runner[1].runner_type \in {"JavaScript", "Wasm"}
       /\ runner[1].runner_type = "JavaScript" =>
             /\ file.readable /\ file.utf8 /\ runner[1].source = file.text
             /\ jsEngine # <<>> /\ runner[1].module = jsEngine[1]
             /\ runner[1].module.origin = "embedded"
       /\ runner[1].runner_type = "Wasm" =>
             /\ runner[1].source = <<>>
             /\ file.wasm # <<>> /\ runner[1].module = file.wasm[1]
             /\ runner[1].module.origin = "artifact"

C4_Witness ==
    /\ newResult = "ok"
    /\ runner[1].runner_type = "JavaScript"
    /\ file.text = <<>>
    /\ runner[1].source = <<>>

(***************************************************************************)
(* C5: is_js_file answers true exactly for a path whose final extension    *)
(* is "js", compared with regard to case; a path without an extension is   *)
(* native; and Runner::new takes the JavaScript branch for the same paths. *)
(***************************************************************************)
C5_ClassifiedByFinalExtension ==
    /\ cls # <<>> =>
          /\ cls[1] = HasFinalExtension(path, <<"j", "s">>)
          /\ HasNoExtension(path) => cls[1] = FALSE
          /\ path \in {P_a_JS, P_a_mjs, P_a_js_wasm} => cls[1] = FALSE
          /\ path = P_a_wasm_js => cls[1] = TRUE
    /\ newResult = "ok" =>
          (runner[1].runner_type = "JavaScript"
             <=> HasFinalExtension(path, <<"j", "s">>))

C5_Witness ==
    /\ cls = <<TRUE>>
    /\ path = P_a_wasm_js

(***************************************************************************)
(* C6 as claimed: is_js_file answers true exactly for a path whose text    *)
(* ends in ".js".                                                          *)
(***************************************************************************)
C6_TextEndsInDotJs ==
    cls # <<>> => (cls[1] <=> EndsWith(path, DotJs))

(***************************************************************************)
(* C6 as amended: is_js_file answers true exactly for a path whose file    *)
(* name ends in ".js" and is longer than ".js".                            *)
(***************************************************************************)
C6_FileNameEndsInDotJs ==
    cls # <<>> =>
       (cls[1] <=> /\ file_name(path) # <<>>
                   /\ EndsWith(file_name(path)[1], DotJs)
                   /\ Len(file_name(path)[1]) > Len(DotJs))

C6_Witness ==
    /\ path = P_dir_dotjs
    /\ cls = <<FALSE>>

(***************************************************************************)
(* C7 as claimed: Runner::new on a JavaScript path whose file cannot be    *)
(* read as text returns an ArtifactRead error and makes no Runner, and on  *)
(* a native path whose file is no valid module returns ModuleCompile.      *)
(***************************************************************************)
C7_NewReturnsItsErrors ==
    newResult # "pending" =>
       /\ (is_js_file(path) /\ jsEngine # <<>> /\ ~(file.readable /\ file.utf8)) =>
             newResult = "ArtifactRead" /\ runner = <<>>
       /\ (~is_js_file(path) /\ ~(file.readable /\ file.wasm # <<>>)) =>
             newResult = "ModuleCompile" /\ runner = <<>>

(***************************************************************************)
(* C8 as claimed: after the guest returned normally, run returns Ok        *)
(* exactly when stdout is a JSON object that has each of body, headers,    *)
(* status and kv with its declared type, and ResponseDecode otherwise.     *)
(***************************************************************************)
HasField(doc, f) ==
    \E i \in 1..Len(doc.items) :
       doc.items[i].key = f /\ FieldAccepts(f, doc.items[i].val)

C8_OkIffObjectWithFields ==
    \A c \in Calls :
       (pc[c] = "done" /\ Has(trace[c], "from_slice")) =>
          /\ result[c].ok <=>
                /\ stdout[c].shape = "object"
                /\ \A f \in {"body", "headers", "status", "kv"} :
                      HasField(stdout[c], f)
          /\ ~result[c].ok => result[c] = RunErr("ResponseDecode")

(***************************************************************************)
(* C8 as amended: run returns Ok exactly when stdout is a JSON object in   *)
(* which each of the four fields occurs once, with its declared type, or   *)
(* a JSON array of exactly four elements of those types in the order body, *)
(* headers, status, kv; members with other names are ignored; otherwise    *)
(* run returns ResponseDecode and no output.                               *)
(***************************************************************************)
Occurrences(doc, f) == {i \in 1..Len(doc.items) : doc.items[i].key = f}

C8_OkIffEachFieldOnce ==
    \A c \in Calls :
       (pc[c] = "done" /\ Has(trace[c], "from_slice")) =>
          /\ result[c].ok <=>
                \/ /\ stdout[c].shape = "object"
                   /\ \A f \in {"body", "headers", "status", "kv"} :
                         /\ Cardinality(Occurrences(stdout[c], f)) = 1
                         /\ HasField(stdout[c], f)
                \/ /\ stdout[c].shape = "array"
                   /\ Len(stdout[c].items) = 4
                   /\ stdout[c].items[1].val.k = "str"
                   /\ stdout[c].items[2].val.k = "map"
                   /\ stdout[c].items[3].val.k = "int"
                   /\ stdout[c].items[3].val.n \in 0..65535
                   /\ stdout[c].items[4].val.k = "map"
          /\ result[c].ok => result[c].out # <<>>
          /\ ~result[c].ok => result[c] = RunErr("ResponseDecode")

C8_Witness ==
    /\ pc["c1"] = "done"
    /\ result["c1"].ok
    /\ stdout["c1"].shape = "object"
    /\ \E i \in 1..Len(stdout["c1"].items) : stdout["c1"].items[i].key = "x"

(***************************************************************************)
(* C9 as claimed: build_wasm_input reports a HeaderDecode error when a     *)
(* header value is not text, and otherwise maps every header name once, to *)
(* the last value iterated for it.                                         *)
(***************************************************************************)
IsText(value) == \A i \in 1..Len(value) : value[i] \in (32..126) \cup {9}

C9_HeaderDecodeReported ==
    wasmInput.status # "pending" =>
       LET hs == request.headers IN
       IF \E i \in 1..Len(hs) : ~IsText(hs[i].value)
       THEN wasmInput.status = "HeaderDecode"
       ELSE /\ wasmInput.status = "ok"
            /\ wasmInput.headers =
                 {<<hs[i].name, hs[i].value>> : i \in
                     {i \in 1..Len(hs) :
                         \A j \in (i + 1)..Len(hs) : hs[j].name # hs[i].name}}

(***************************************************************************)
(* C10: the steps of one call are a prefix of: module linked, default      *)
(* entry resolved, entry typed, entry called, store dropped, stdout        *)
(* extracted, output parsed; each happens at most once; the step that      *)
(* fails is the last one, and run returns that step's error.               *)
(***************************************************************************)
C10_StepsInOrder ==
    \A c \in Calls :
       /\ IsPrefix(trace[c], StepOrder)
       /\ pc[c] \in {"extracted", "done"} /\ Has(trace[c], "try_into_inner") =>
             /\ Has(trace[c], "call") /\ Has(trace[c], "drop")
             /\ stdoutRefs[c] = 0
       /\ pc[c] # "idle" =>
             LET fs == FailingStep(runner[1], input[c]) IN
             /\ fs[1] # 0 => Len(trace[c]) <= fs[1]
             /\ (fs[1] # 0 /\ Len(trace[c]) = fs[1]) =>
                   pc[c] = "done" /\ result[c] = RunErr(fs[2])
             /\ (fs[1] = 0 \/ Len(trace[c]) < fs[1]) => result[c].err = ""
             /\ pc[c] = "done" =>
                   Len(trace[c]) = IF fs[1] = 0 THEN Len(StepOrder) ELSE fs[1]

C10_Witness ==
    \E c \in Calls : \E d \in Calls \ {c} :
       /\ pc[c] = "done" /\ result[c].ok /\ trace[c] = StepOrder
       /\ pc[d] = "done" /\ result[d] = RunErr("GuestTrap")
       /\ trace[d] = <<"module", "get_default", "typed", "call">>

=============================================================================
